---------------------------- MODULE Spec2Model ----------------------------
(***************************************************************************)
(* Multi-agent stock & news assistant (src/graph.py): the LangGraph        *)
(* workflow router -> {agent_sql, agent_news, agent_fallback} -> router    *)
(* ... -> synth -> END, its callers, and the text helpers the nodes use.   *)
(*                                                                         *)
(* Text is a sequence of one-character strings, so that the regular        *)
(* expressions of the source are computed character by character.  A       *)
(* message built by an f-string is the concatenation of its fragments.     *)
(* Python's None is the one-element sequence None below, which no text of  *)
(* the model equals; "" is the empty sequence.  Questions and generated    *)
(* queries are written character by character; the fixed messages of the   *)
(* nodes are single fragments, with typographic dashes and quotes in       *)
(* ASCII.                                                                  *)
(***************************************************************************)
EXTENDS Integers, Sequences, FiniteSets, TLC

\* ------------------------------------------------------------------ text

None == <<"None">>

\* Python truthiness of an Optional[str]: None and "" are falsy.
Truthy(x) == x # None /\ x # <<>>

\* Mutant of Or: the second operand is never taken.
Or_first(a, b) == a

\* `a or b` on Optional[str] values.
Or(a, b) == IF Truthy(a) THEN a ELSE b
UpperSeq == <<"A","B","C","D","E","F","G","H","I","J","K","L","M","N","O","P","Q","R","S","T","U","V","W","X","Y","Z">>
LowerSeq == <<"a","b","c","d","e","f","g","h","i","j","k","l","m","n","o","p","q","r","s","t","u","v","w","x","y","z">>
DigitSeq == <<"0","1","2","3","4","5","6","7","8","9">>

IsUpper(c) == \E i \in 1..Len(UpperSeq) : UpperSeq[i] = c
IsLower(c) == \E i \in 1..Len(LowerSeq) : LowerSeq[i] = c
IsDigit(c) == \E i \in 1..Len(DigitSeq) : DigitSeq[i] = c
IsAlpha(c) == IsUpper(c) \/ IsLower(c)

\* The regex class \w (ASCII part): letters, digits and underscore.
IsWordChar(c) == IsAlpha(c) \/ IsDigit(c) \/ c = "_"

\* int() of one decimal digit.
DigitVal(c) == (CHOOSE i \in 1..Len(DigitSeq) : DigitSeq[i] = c) - 1

LowerChar(c) == IF IsUpper(c) THEN LowerSeq[CHOOSE i \in 1..Len(UpperSeq) : UpperSeq[i] = c] ELSE c
UpperChar(c) == IF IsLower(c) THEN UpperSeq[CHOOSE i \in 1..Len(LowerSeq) : LowerSeq[i] = c] ELSE c

\* str.lower() and str.upper().
lower(t) == [i \in 1..Len(t) |-> LowerChar(t[i])]
upper(t) == [i \in 1..Len(t) |-> UpperChar(t[i])]

\* Whether position i of t holds a \w character (positions outside t do not).
WordAt(t, i) == i >= 1 /\ i <= Len(t) /\ IsWordChar(t[i])

\* The regex assertion \b just before position i of t (i in 1..Len(t)+1).
Boundary(t, i) == WordAt(t, i - 1) # WordAt(t, i)

\* Whether the literal w occurs in t starting at position i.
MatchAt(t, i, w) ==
    /\ i >= 1
    /\ i + Len(w) - 1 <= Len(t)
    /\ \A k \in 1..Len(w) : t[i + k - 1] = w[k]

\* Python's `w in t` on strings.
Contains(t, w) == \E i \in 1..(Len(t) + 1) : MatchAt(t, i, w)

\* re.search(r"\b(w1|w2|...)\b", t) for a set of literal alternatives.
SearchWord(t, words) ==
    \E i \in 1..Len(t), w \in words :
        Boundary(t, i) /\ MatchAt(t, i, w) /\ Boundary(t, i + Len(w))

Max(S) == CHOOSE x \in S : \A y \in S : y <= x
Min(S) == CHOOSE x \in S : \A y \in S : x <= y

\* The alternatives of the router's two keyword regexes.
SqlKeywords ==
    { <<"p","r","i","c","e">>,
      <<"o","p","e","n">>,
      <<"c","l","o","s","e">>,
      <<"v","o","l","u","m","e">>,
      <<"h","i","g","h">>,
      <<"l","o","w">>,
      <<"f","i","n","a","n","c","i","a","l"," ","d","a","t","a">>,
      <<"s","t","o","c","k"," ","d","a","t","a">> }
NewsKeywords ==
    { <<"n","e","w","s">>,
      <<"h","e","a","d","l","i","n","e">>,
      <<"a","r","t","i","c","l","e">>,
      <<"u","p","d","a","t","e">>,
      <<"l","a","t","e","s","t"," ","u","p","d","a","t","e","s">>,
      <<"r","e","l","a","t","e","d"," ","n","e","w","s">> }

\* TICKER_MAP as a set of <<key, symbol>> pairs.
TICKER_MAP ==
    { <<<<"a","a","p","l">>, <<"A","A","P","L">>>>,
      <<<<"a","p","p","l","e">>, <<"A","A","P","L">>>>,
      <<<<"m","s","f","t">>, <<"M","S","F","T">>>>,
      <<<<"m","i","c","r","o","s","o","f","t">>, <<"M","S","F","T">>>>,
      <<<<"g","o","o","g","l">>, <<"G","O","O","G","L">>>>,
      <<<<"g","o","o","g","l","e">>, <<"G","O","O","G","L">>>>,
      <<<<"a","l","p","h","a","b","e","t">>, <<"G","O","O","G","L">>>>,
      <<<<"t","s","l","a">>, <<"T","S","L","A">>>>,
      <<<<"t","e","s","l","a">>, <<"T","S","L","A">>>>,
      <<<<"a","m","z","n">>, <<"A","M","Z","N">>>>,
      <<<<"a","m","a","z","o","n">>, <<"A","M","Z","N">>>> }

\* ------------------------------------------------------- ticker and dates

\* Lengths n in 1..5 for which r"\$([A-Za-z]{1,5})\b" matches at position i.
DollarLens(t, i) ==
    { n \in 1..5 :
        /\ t[i] = "$"
        /\ \A k \in 1..n : i + k <= Len(t) /\ IsAlpha(t[i + k])
        /\ Boundary(t, i + n + 1) }

\* re.findall(r"\$?[A-Za-z]{1,5}", t) from position i on: successive
\* non-overlapping greedy matches, the sigil taken only when a letter follows.
RECURSIVE TickerTokens(_, _)
TickerTokens(t, i) ==
    IF i > Len(t) THEN <<>>
    ELSE LET d == IF t[i] = "$" /\ i + 1 <= Len(t) /\ IsAlpha(t[i + 1]) THEN 1 ELSE 0
             n == Max({ m \in 0..5 :
                          \A k \in 0..(m - 1) :
                              i + d + k <= Len(t) /\ IsAlpha(t[i + d + k]) })
         IN  IF n = 0 THEN TickerTokens(t, i + 1)
             ELSE <<SubSeq(t, i, i + d + n - 1)>> \o TickerTokens(t, i + d + n)

InTickerMap(word) == \E p \in TICKER_MAP : p[1] = word
TickerMapGet(word) == (CHOOSE p \in TICKER_MAP : p[1] = word)[2]

\* Lengths n in 1..5 for which r"\b([A-Z]{1,5})\b" matches at position i.
UpperLens(t, i) ==
    { n \in 1..5 :
        /\ Boundary(t, i)
        /\ \A k \in 0..(n - 1) : i + k <= Len(t) /\ IsUpper(t[i + k])
        /\ Boundary(t, i + n) }

\* Extract an explicit $TICKER, alias, or bare symbol; "" if none.
_extract_ticker(q) ==
    LET dollarAt == { i \in 1..Len(q) : DollarLens(q, i) # {} }
        words    == TickerTokens(lower(q), 1)
        known    == { j \in 1..Len(words) : InTickerMap(words[j]) }
        upperAt  == { i \in 1..Len(q) : UpperLens(q, i) # {} }
    IN  IF dollarAt # {}
        THEN LET i == Min(dollarAt)
                 n == Max(DollarLens(q, i))
             IN  upper(SubSeq(q, i + 1, i + n))
        ELSE IF known # {}
        THEN TickerMapGet(words[Min(known)])
        ELSE IF upperAt # {}
        THEN LET i == Min(upperAt)
                 n == Max(UpperLens(q, i))
             IN  SubSeq(q, i, i + n - 1)
        ELSE <<>>

IsSep(c) == c = "/" \/ c = "-"
In19(c) == IsDigit(c) /\ c # "0"

\* (0?[1-9]|1[0-2]) matching exactly the n characters from position i.
MonthAt(t, i, n) ==
    /\ i + n - 1 <= Len(t)
    /\ \/ n = 1 /\ In19(t[i])
       \/ n = 2 /\ t[i] = "0" /\ In19(t[i + 1])
       \/ n = 2 /\ t[i] = "1" /\ t[i + 1] \in {"0", "1", "2"}

\* (0?[1-9]|[12][0-9]|3[01]) matching exactly the n characters from position i.
DayAt(t, i, n) ==
    /\ i + n - 1 <= Len(t)
    /\ \/ n = 1 /\ In19(t[i])
       \/ n = 2 /\ t[i] = "0" /\ In19(t[i + 1])
       \/ n = 2 /\ t[i] \in {"1", "2"} /\ IsDigit(t[i + 1])
       \/ n = 2 /\ t[i] = "3" /\ t[i + 1] \in {"0", "1"}

\* The matches of _US_DATE_RE that start at position i, as <<month length,
\* day length>>: the separators pin both lengths, so there is at most one.
UsDateAt(t, i) ==
    { m \in {1, 2} \X {1, 2} :
        LET y == i + m[1] + 1 + m[2] + 1
        IN  /\ Boundary(t, i)
            /\ MonthAt(t, i, m[1])
            /\ i + m[1] <= Len(t) /\ IsSep(t[i + m[1]])
            /\ DayAt(t, i + m[1] + 1, m[2])
            /\ y - 1 <= Len(t) /\ IsSep(t[y - 1])
            /\ y + 3 <= Len(t)
            /\ t[y] = "2" /\ t[y + 1] = "0"
            /\ IsDigit(t[y + 2]) /\ IsDigit(t[y + 3])
            /\ Boundary(t, y + 4) }

\* int() of a text of one or two digits.
IntOf(t) == IF Len(t) = 1 THEN DigitVal(t[1]) ELSE 10 * DigitVal(t[1]) + DigitVal(t[2])

\* f"{n:02d}" for 0 <= n < 100.
Fmt02d(n) == <<DigitSeq[(n \div 10) + 1], DigitSeq[(n % 10) + 1]>>

\* _fix: the replacement for the match <<ml, dl>> at position i.
_fix(t, i, m) ==
    LET mon == SubSeq(t, i, i + m[1] - 1)
        day == SubSeq(t, i + m[1] + 1, i + m[1] + m[2])
        y   == i + m[1] + 1 + m[2] + 1
        yr  == SubSeq(t, y, y + 3)
    IN  yr \o <<"-">> \o Fmt02d(IntOf(mon)) \o <<"-">> \o Fmt02d(IntOf(day))

\* _US_DATE_RE.sub(_fix, t) from position i on.
RECURSIVE SubDates(_, _)
SubDates(t, i) ==
    IF i > Len(t) THEN <<>>
    ELSE IF UsDateAt(t, i) # {}
    THEN LET m == CHOOSE m \in UsDateAt(t, i) : TRUE
         IN  _fix(t, i, m) \o SubDates(t, i + m[1] + 1 + m[2] + 1 + 4)
    ELSE <<t[i]>> \o SubDates(t, i + 1)

\* Turn 06/11/2025 into 2025-06-11.
_normalize_dates(text) == SubDates(text, 1)

\* Whether r"\d{4}-\d{2}-\d{2}" matches t at position i.
IsoDateAt(t, i) ==
    /\ i + 9 <= Len(t)
    /\ \A k \in {0, 1, 2, 3, 5, 6, 8, 9} : IsDigit(t[i + k])
    /\ t[i + 4] = "-" /\ t[i + 7] = "-"

\* re.search(r"\d{4}-\d{2}-\d{2}", t): the first match, or None.
SearchIsoDate(t) ==
    LET at == { i \in 1..Len(t) : IsoDateAt(t, i) }
    IN  IF at = {} THEN None ELSE SubSeq(t, Min(at), Min(at) + 9)

\* ---------------------------------------------------------------- inputs

\* The questions a caller may ask.
\* Scenario A: price keyword, bare symbol, ISO date
QueryA == <<"A","A","P","L"," ","c","l","o","s","e"," ","o","n"," ","2","0","2","5","-","0","6","-","1","6">>
\* Scenario B: news keyword, alias
QueryB == <<"T","e","s","l","a"," ","n","e","w","s">>
\* Scenario D: no keyword, no ticker
QueryD == <<"w","h","a","t","'","s"," ","t","h","e"," ","w","e","a","t","h","e","r">>
\* news keyword, no ticker
QueryE == <<"l","a","t","e","s","t"," ","n","e","w","s">>
\* price keyword, sigil, US date
QueryF == <<"$","m","s","f","t"," ","o","p","e","n"," ","6","/","1","1","/","2","0","2","5">>
Queries == { QueryA, QueryB, QueryD, QueryE, QueryF }

\* Questions for the classification alone: one per keyword of the router's
\* heuristics, one with both kinds, one with none, and two plural forms.
KwPrice == <<"T","S","L","A"," ","p","r","i","c","e">>
KwOpen == <<"o","p","e","n"," ","o","f"," ","A","A","P","L">>
KwClose == <<"A","A","P","L"," ","c","l","o","s","e">>
KwVolume == <<"v","o","l","u","m","e"," ","f","o","r"," ","M","S","F","T">>
KwHigh == <<"T","S","L","A"," ","h","i","g","h">>
KwLow == <<"T","S","L","A"," ","l","o","w">>
KwNews == <<"T","e","s","l","a"," ","n","e","w","s"," ","t","o","d","a","y">>
KwHeadline == <<"A","A","P","L"," ","h","e","a","d","l","i","n","e">>
KwArticle == <<"a","r","t","i","c","l","e"," ","o","n"," ","M","S","F","T">>
KwUpdate == <<"T","S","L","A"," ","u","p","d","a","t","e">>
KwBoth == <<"P","r","i","c","e"," ","a","n","d"," ","N","e","w","s">>
KwNone == <<"h","e","l","l","o"," ","t","h","e","r","e">>
KwPrices == <<"T","e","s","l","a"," ","s","t","o","c","k"," ","p","r","i","c","e","s">>
KwHeadlines == <<"T","e","s","l","a"," ","h","e","a","d","l","i","n","e","s">>
ClassifyQueries ==
    { KwPrice, KwOpen, KwClose, KwVolume, KwHigh, KwLow, KwNews,
      KwHeadline, KwArticle, KwUpdate, KwBoth, KwNone, KwPrices, KwHeadlines }

\* Questions for the date kept at synthesis: an ISO date, M/D/YYYY with and
\* without zero padding, M/D/YY, dashes as separators, no date, and a date
\* with neither keyword nor ticker.
DateIso == <<"T","S","L","A"," ","c","l","o","s","e"," ","2","0","2","5","-","0","6","-","1","6">>
DateLong == <<"T","S","L","A"," ","c","l","o","s","e"," ","6","/","1","/","2","0","2","5">>
DatePadded == <<"T","S","L","A"," ","c","l","o","s","e"," ","0","6","/","1","1","/","2","0","2","5">>
DateShort == <<"T","S","L","A"," ","c","l","o","s","e"," ","6","/","1","1","/","2","5">>
DateDash == <<"T","S","L","A"," ","c","l","o","s","e"," ","6","-","1","1","-","2","0","2","5">>
DateNone == <<"T","S","L","A"," ","c","l","o","s","e"," ","y","e","s","t","e","r","d","a","y">>
DateOnly == <<"o","n"," ","1","2","/","3","1","/","2","0","2","5">>
DateQueries ==
    { DateIso, DateLong, DatePadded, DateShort, DateDash, DateNone, DateOnly }

\* Questions for the ticker extraction: a sigil, a sigil after a bare symbol,
\* company names of the alias table, a company name after a bare symbol, a
\* bare symbol alone, and no ticker.
TkDollar == <<"$","t","s","l","a"," ","p","r","i","c","e">>
TkDollarLate == <<"I","B","M"," ","o","r"," ","$","a","a","p","l"," ","p","r","i","c","e">>
TkMicrosoft == <<"m","i","c","r","o","s","o","f","t"," ","p","r","i","c","e">>
TkAmazon == <<"a","m","a","z","o","n"," ","n","e","w","s">>
TkAlphabet == <<"a","l","p","h","a","b","e","t"," ","n","e","w","s">>
TkGoogle == <<"g","o","o","g","l","e"," ","p","r","i","c","e">>
TkApple == <<"a","p","p","l","e"," ","n","e","w","s">>
TkAliasLate == <<"I","B","M"," ","v","s"," ","a","p","p","l","e">>
TkBare == <<"I","B","M"," ","p","r","i","c","e">>
TkNoTicker == <<"p","r","i","c","e"," ","t","o","d","a","y">>
TickerQueries ==
    { TkDollar, TkDollarLate, TkMicrosoft, TkAmazon, TkAlphabet,
      TkGoogle, TkApple, TkAliasLate, TkBare, TkNoTicker }

AllQueries == Queries \cup ClassifyQueries \cup DateQueries \cup TickerQueries

\* The words that end the interactive loop.
QuitWords == { <<"q","u","i","t">>, <<"e","x","i","t">> }

\* Generated queries, as _clean_sql hands them to _validate.
SqlGood == <<"s","e","l","e","c","t"," ","c","l","o","s","e"," ","f","r","o","m"," ","s","t","o","c","k","_","d","a","t","a">>
SqlOtherTable == <<"s","e","l","e","c","t"," ","c","l","o","s","e"," ","f","r","o","m"," ","p","r","i","c","e","s">>
SqlNews == <<"s","e","l","e","c","t"," ","h","e","a","d","l","i","n","e"," ","f","r","o","m"," ","s","t","o","c","k","_","d","a","t","a">>
SqlTexts == { SqlGood, SqlOtherTable, SqlNews }

\* The literals _validate looks for.
StockDataWord == <<"s","t","o","c","k","_","d","a","t","a">>
BannedWords == { <<"n","e","w","s">>, <<"h","e","a","d","l","i","n","e">>, <<"u","r","l">> }

\* Bounds of the model.
MaxTurns == 2
\* The graph framework stops a run after this many node executions and
\* raises GraphRecursionError; the model uses a small limit.
RecursionLimit == 8

\* What the text-completion collaborator may do for the router: raise or
\* return unparseable text (raised), or return the two flags.
RouterLlmOutcomes ==
    { [raised |-> TRUE, need_sql |-> FALSE, need_news |-> FALSE] } \cup
    { [raised |-> FALSE, need_sql |-> a, need_news |-> b] : a, b \in BOOLEAN }

\* The exception texts a collaborator may raise with.
ExcTexts == { <<"connection refused">> }

\* What the price-data collaborators may do in one run of run_sql_agent.
SqlCollab ==
    [ chain_raises : BOOLEAN,          \* get_sql_agent_chain() / ChatOllama(...)
      llm_raises   : BOOLEAN,          \* llm.invoke(messages)
      cleaned_sql  : SqlTexts,         \* _clean_sql(response)
      db_raises    : BOOLEAN,          \* sql_agent_chain.db.run(cleaned_sql)
      db_rows      : { <<>>, <<"[(212.10,)]">> },
      exc          : ExcTexts ]

\* What the news collaborators may do in one run of run_news_agent.
NewsCollab ==
    [ known     : BOOLEAN,             \* the symbol is in KNOWN_TICKERS
      db_raises : BOOLEAN,             \* fetch_raw_articles / similarity_search
      lines     : { <<"headlines">> },
      exc       : ExcTexts ]

\* What the text-completion collaborator may do for synthesis.
SynthLlmOutcomes ==
    { [raised |-> TRUE, content |-> <<>>],
      [raised |-> FALSE, content |-> <<"final answer">>] }

\* ----------------------------------------------------------------- state

\* The graph input {"query": q}: every other key is absent.  An absent key
\* reads as None through s.get(k), as False through s.get(k, False) and as
\* [] through s.get("chat_history", []), which are the only reads of the
\* nodes, so absent keys hold those values here.
BlankState(q) ==
    [ query        |-> q,
      need_sql     |-> FALSE,
      need_news    |-> FALSE,
      sql_done     |-> FALSE,
      news_done    |-> FALSE,
      sql_result   |-> None,
      news_result  |-> None,
      answer       |-> None,
      error        |-> None,
      chat_history |-> <<>>,
      last_ticker  |-> None,
      last_date    |-> None,
      last_query   |-> None ]

HumanMessage(content) == [role |-> "user", content |-> content]
AIMessage(content) == [role |-> "assistant", content |-> content]

\* ---------------------------------------------------------------- router

\* Mutant of NewQueryReset: the turn-scoped keys survive a new question.
NewQueryReset_skip(st) == st

\* Clear turn-scoped keys for a brand-new question.
NewQueryReset(st) ==
    [st EXCEPT !.need_sql = FALSE, !.need_news = FALSE,
               !.sql_done = FALSE, !.news_done = FALSE,
               !.sql_result = None, !.news_result = None,
               !.error = None]

need_sql_heuristic(q) == SearchWord(lower(q), SqlKeywords)
need_news_heuristic(q) == SearchWord(lower(q), NewsKeywords)

\* What the text helpers give for each question, computed once.
TickerOf == [q \in AllQueries |-> _extract_ticker(q)]
SqlHeuristicOf == [q \in AllQueries |-> need_sql_heuristic(q)]
NewsHeuristicOf == [q \in AllQueries |-> need_news_heuristic(q)]
DateOf == [q \in AllQueries |-> SearchIsoDate(_normalize_dates(q))]

\* Mutant of need_sql_llm: a failed completion counts as a yes.
need_sql_llm_fail_true(llm) == IF llm.raised THEN TRUE ELSE llm.need_sql

\* The collaborator's term of each flag: false when the completion raised or
\* its text did not parse.
need_sql_llm(llm) == IF llm.raised THEN FALSE ELSE llm.need_sql
need_news_llm(llm) == IF llm.raised THEN FALSE ELSE llm.need_news

\* Mutant of CombineFlags: the carried flag is dropped.
CombineFlags_no_carry(carried, heuristic, from_llm) == heuristic \/ from_llm

\* Mutant of CombineFlags: the heuristic is dropped.
CombineFlags_no_heuristic(carried, heuristic, from_llm) == carried \/ from_llm

\* new_state[flag] or heuristic or llm.
CombineFlags(carried, heuristic, from_llm) == carried \/ heuristic \/ from_llm

\* The state the router returns, given what the collaborator does.
router_node(s, llm) ==
    LET is_new_query == s.last_query # s.query
        carried == [ query        |-> s.query,
                     chat_history |-> s.chat_history,
                     last_ticker  |-> s.last_ticker,
                     last_date    |-> s.last_date,
                     last_query   |-> s.query,
                     need_sql     |-> s.need_sql,
                     need_news    |-> s.need_news,
                     sql_done     |-> s.sql_done,
                     news_done    |-> s.news_done,
                     sql_result   |-> s.sql_result,
                     news_result  |-> s.news_result,
                     answer       |-> None,
                     error        |-> None ]
        new_state == IF is_new_query THEN NewQueryReset(carried) ELSE carried
        current_ticker == Or(TickerOf[new_state.query], new_state.last_ticker)
    IN  [new_state EXCEPT
            !.last_ticker = current_ticker,
            !.need_sql = CombineFlags(new_state.need_sql, SqlHeuristicOf[new_state.query],
                                      need_sql_llm(llm)),
            !.need_news = CombineFlags(new_state.need_news, NewsHeuristicOf[new_state.query],
                                       need_news_llm(llm))]

\* Mutant of decide_next: the NEWS rule is tried before the SQL rule.
decide_next_news_first(s) ==
    IF Truthy(s.error) THEN "synth"
    ELSE IF s.need_news /\ ~s.news_done THEN "agent_news"
    ELSE IF s.need_sql /\ ~s.sql_done THEN "agent_sql"
    ELSE IF ~(s.need_sql \/ s.need_news) THEN "agent_fallback"
    ELSE "synth"

\* The conditional edge taken after the router.
decide_next(s) ==
    IF Truthy(s.error) THEN "synth"
    ELSE IF s.need_sql /\ ~s.sql_done THEN "agent_sql"
    ELSE IF s.need_news /\ ~s.news_done THEN "agent_news"
    ELSE IF ~(s.need_sql \/ s.need_news) THEN "agent_fallback"
    ELSE IF (s.sql_done \/ ~s.need_sql) /\ (s.news_done \/ ~s.need_news) THEN "synth"
    ELSE "synth"

\* ----------------------------------------------------------- specialists

\* Mutant of _validate_raises: only the table name is looked for.
_validate_raises_table_only(sql) == ~Contains(lower(sql), StockDataWord)

\* Reject any query that touches unknown tables/columns: TRUE when it raises.
_validate_raises(sql) ==
    LET lowered == lower(sql)
    IN  \/ ~Contains(lowered, StockDataWord)
        \/ \E word \in BannedWords : Contains(lowered, word)

\* Whether _validate rejects each generated query, computed once.
Rejected == [sql \in SqlTexts |-> _validate_raises(sql)]

\* The answer run_sql_agent gives when the query is rejected or fails.
SqlApology == <<"Sorry, I couldn't answer that due to a database error.">>

\* Mutant of run_sql_agent: a rejected query raises out of the adapter.
run_sql_agent_reraise(c) ==
    IF c.chain_raises \/ (~c.llm_raises /\ Rejected[c.cleaned_sql])
    THEN [raised |-> TRUE, exc |-> c.exc, output |-> <<>>,
          sql |-> IF c.chain_raises THEN None ELSE c.cleaned_sql,
          rejected |-> ~c.chain_raises, executed |-> FALSE, db_failed |-> FALSE]
    ELSE LET failed == c.llm_raises \/ c.db_raises
             answer_text == IF failed THEN SqlApology ELSE c.db_rows
         IN  [ raised    |-> FALSE,
               exc       |-> <<>>,
               output    |-> IF answer_text = <<>> THEN <<"I couldn't find an answer.">>
                             ELSE answer_text,
               sql       |-> IF c.llm_raises THEN None ELSE c.cleaned_sql,
               rejected  |-> FALSE,
               executed  |-> ~c.llm_raises,
               db_failed |-> ~c.llm_raises /\ c.db_raises ]

\* Mutant of run_sql_agent: an empty answer is returned as it is.
run_sql_agent_blank(c) ==
    IF c.chain_raises
    THEN [raised |-> TRUE, exc |-> c.exc, output |-> <<>>, sql |-> None,
          rejected |-> FALSE, executed |-> FALSE, db_failed |-> FALSE]
    ELSE LET failed == c.llm_raises \/ Rejected[c.cleaned_sql] \/ c.db_raises
             executed == ~c.llm_raises /\ ~Rejected[c.cleaned_sql]
         IN  [ raised    |-> FALSE,
               exc       |-> <<>>,
               output    |-> IF failed THEN SqlApology ELSE c.db_rows,
               sql       |-> IF c.llm_raises THEN None ELSE c.cleaned_sql,
               rejected  |-> ~c.llm_raises /\ Rejected[c.cleaned_sql],
               executed  |-> executed,
               db_failed |-> executed /\ c.db_raises ]

\* run_sql_agent: whether it raises (and with what), the output it returns
\* otherwise, the generated query (None when the completion raised), whether
\* _validate rejected it, whether it was run against the database, and
\* whether that run failed.
run_sql_agent(c) ==
    IF c.chain_raises
    THEN [raised |-> TRUE, exc |-> c.exc, output |-> <<>>, sql |-> None,
          rejected |-> FALSE, executed |-> FALSE, db_failed |-> FALSE]
    ELSE LET failed == c.llm_raises \/ Rejected[c.cleaned_sql] \/ c.db_raises
             executed == ~c.llm_raises /\ ~Rejected[c.cleaned_sql]
             answer_text == IF failed THEN SqlApology ELSE c.db_rows
         IN  [ raised    |-> FALSE,
               exc       |-> <<>>,
               output    |-> IF answer_text = <<>> THEN <<"I couldn't find an answer.">>
                             ELSE answer_text,
               sql       |-> IF c.llm_raises THEN None ELSE c.cleaned_sql,
               rejected  |-> ~c.llm_raises /\ Rejected[c.cleaned_sql],
               executed  |-> executed,
               db_failed |-> executed /\ c.db_raises ]

\* Mutant of agent_sql_node: the chat history run_sql_agent returns, with
\* its answer appended, is merged into the state.
agent_sql_node_merge(s, c) ==
    LET result_state == run_sql_agent(c)
    IN  IF result_state.raised
        THEN [s EXCEPT !.error = <<"SQL agent error: ">> \o result_state.exc]
        ELSE [s EXCEPT !.sql_result = result_state.output, !.sql_done = TRUE,
                       !.chat_history = s.chat_history \o <<AIMessage(result_state.output)>>]

agent_sql_node(s, c) ==
    LET result_state == run_sql_agent(c)
    IN  IF result_state.raised
        THEN [s EXCEPT !.error = <<"SQL agent error: ">> \o result_state.exc]
        ELSE [s EXCEPT !.sql_result = result_state.output, !.sql_done = TRUE]

\* run_news_agent on "latest news for <symbol>".
run_news_agent(c) ==
    IF ~c.known
    THEN [raised |-> FALSE, exc |-> <<>>,
          output |-> <<"Sorry - couldn't recognise a valid ticker in your question.">>]
    ELSE IF c.db_raises
    THEN [raised |-> TRUE, exc |-> c.exc, output |-> <<>>]
    ELSE [raised |-> FALSE, exc |-> <<>>, output |-> c.lines]

\* Mutant of NewsCallsCollab: the ticker is not looked at.
NewsCallsCollab_always(s) == TRUE

\* Whether agent_news_node calls run_news_agent: only with a ticker.
NewsCallsCollab(s) == Truthy(s.last_ticker)

agent_news_node(s, c) ==
    LET r == run_news_agent(c)
    IN  IF ~NewsCallsCollab(s)
        THEN [s EXCEPT !.error = <<"News agent error: Could not identify a ticker.">>]
        ELSE IF r.raised
        THEN [s EXCEPT !.error = <<"News agent error: ">> \o r.exc]
        ELSE [s EXCEPT !.news_result = r.output, !.news_done = TRUE]

run_fallback_agent ==
    <<"I'm not sure I can help with that. Try asking about Tesla stock prices or Tesla-related news.">>

agent_fallback_node(s) ==
    [s EXCEPT !.sql_result = run_fallback_agent, !.sql_done = TRUE, !.news_done = TRUE]

\* ------------------------------------------------------------- synthesis

\* The arguments synth_node passes to the text-completion collaborator.
SynthArgs(s) ==
    [ q    |-> s.query,
      sql  |-> Or(s.sql_result, <<"No stock info found.">>),
      news |-> Or(s.news_result, <<>>) ]

\* Whether synth_node calls the text-completion collaborator.
SynthCallsLlm(s) == ~Truthy(s.error)

\* Mutant of synth_node: the done flags are committed as they are.
synth_node_keep_done(s, llm) ==
    LET answer == IF Truthy(s.error) THEN <<"Sorry - ">> \o s.error ELSE llm.content
    IN  [s EXCEPT !.answer = answer,
                  !.chat_history = s.chat_history \o <<HumanMessage(s.query), AIMessage(answer)>>,
                  !.last_date = IF DateOf[s.query] # None THEN DateOf[s.query] ELSE s.last_date]

\* Mutant of synth_node: only the assistant's message is appended.
synth_node_no_user(s, llm) ==
    LET answer == IF Truthy(s.error) THEN <<"Sorry - ">> \o s.error ELSE llm.content
    IN  [s EXCEPT !.answer = answer,
                  !.chat_history = s.chat_history \o <<AIMessage(answer)>>,
                  !.last_date = IF DateOf[s.query] # None THEN DateOf[s.query] ELSE s.last_date,
                  !.sql_done = TRUE,
                  !.news_done = TRUE]

\* The state synth_node returns when it does not raise.
synth_node(s, llm) ==
    LET answer == IF Truthy(s.error) THEN <<"Sorry - ">> \o s.error ELSE llm.content
        chat == s.chat_history \o <<HumanMessage(s.query), AIMessage(answer)>>
        date_match == DateOf[s.query]
        last_date == IF date_match # None THEN date_match ELSE s.last_date
    IN  [s EXCEPT !.answer = answer,
                  !.chat_history = chat,
                  !.last_date = last_date,
                  !.sql_done = TRUE,
                  !.news_done = TRUE]

\* --------------------------------------------------------- state machine

VARIABLES
    s,            \* the AgentState the graph threads through the nodes
    pc,           \* where control is: "start", a node, "END", or how the run died
    mode,         \* which caller drives the graph
    state,        \* the caller's memory: <<>> or <<the state the last turn returned>>
    turn,         \* the number of turns started
    asked,        \* the query of the graph input of the current turn
    typed,        \* the text the user typed for the current turn
    route,        \* the nodes executed in the current turn, in order
    errors,       \* the errors specialists returned in the current turn
    synth_calls,  \* the arguments of the synthesis completions of the current turn
    was_new,      \* whether the current turn's input query differs from its last_query
    classified,   \* what the collaborator did in the router pass that just ran, if one did
    last_run,     \* what the SQL or NEWS node that just ran did with its collaborators
    turn_log      \* per completed turn: the query asked and the answer returned

vars == <<s, pc, mode, state, turn, asked, typed, route, errors, synth_calls, was_new,
          classified, last_run, turn_log>>

Modes == {"once", "chat", "handle_turn"}
Nodes == {"router", "agent_sql", "agent_news", "agent_fallback", "synth"}
Specialists == {"agent_sql", "agent_news", "agent_fallback"}

Init ==
    /\ mode \in Modes
    /\ s = BlankState(<<>>)
    /\ pc = "start"
    /\ state = <<>>
    /\ turn = 0
    /\ asked = None
    /\ typed = None
    /\ route = <<>>
    /\ errors = <<>>
    /\ synth_calls = <<>>
    /\ was_new = FALSE
    /\ classified = <<>>
    /\ last_run = <<>>
    /\ turn_log = <<>>

\* workflow.invoke(input): the run starts at the entry point, the router.
Invoke(input, q) ==
    /\ s' = input
    /\ pc' = "router"
    /\ turn' = turn + 1
    /\ asked' = input.query
    /\ typed' = q
    /\ route' = <<>>
    /\ errors' = <<>>
    /\ synth_calls' = <<>>
    /\ was_new' = (input.last_query # input.query)
    /\ classified' = <<>>
    /\ last_run' = <<>>
    /\ UNCHANGED <<mode, state, turn_log>>

\* python graph.py <question>
RunQueryOnce ==
    /\ mode = "once"
    /\ pc = "start"
    /\ \E q \in Queries : Invoke(BlankState(q), q)

\* The graph input of the interactive loop, {"query": q, **(state or {})}:
\* the keys of the previous state, "query" among them, replace the new ones.
ChatInput(q, st) == IF st = <<>> THEN BlankState(q) ELSE st[1]

\* One pass of the interactive loop, up to the call of the graph.
ChatLoop ==
    /\ mode = "chat"
    /\ pc \in {"start", "END"}
    /\ turn < MaxTurns
    /\ \E q \in Queries \cup QuitWords :
          IF lower(q) \in QuitWords
          THEN /\ pc' = "exit"
               /\ typed' = q
               /\ UNCHANGED <<s, mode, state, turn, asked, route, errors, synth_calls, was_new,
                            classified, last_run, turn_log>>
          ELSE Invoke(ChatInput(q, state), q)

\* The graph input a caller builds from a new query and the memory it holds.
TurnInput(q, st) == IF st = <<>> THEN BlankState(q) ELSE [st[1] EXCEPT !.query = q]

\* handle_turn(query, memory), up to the call of the graph.
HandleTurn ==
    /\ mode = "handle_turn"
    /\ pc \in {"start", "END"}
    /\ turn < MaxTurns
    /\ \E q \in Queries : Invoke(TurnInput(q, state), q)

Router ==
    /\ pc = "router"
    /\ Len(route) < RecursionLimit
    /\ \E llm \in RouterLlmOutcomes :
          /\ s' = router_node(s, llm)
          /\ pc' = decide_next(s')
          /\ classified' = <<llm>>
    /\ route' = Append(route, "router")
    /\ last_run' = <<>>
    /\ UNCHANGED <<mode, state, turn, asked, typed, errors, synth_calls, was_new, turn_log>>

\* What one run of agent_sql_node did: the generated query, whether it was
\* rejected, run and failed, and whether run_sql_agent raised.
SqlRun(c) ==
    LET r == run_sql_agent(c)
    IN  [ node |-> "agent_sql", called |-> TRUE, raised |-> r.raised, sql |-> r.sql,
          rejected |-> r.rejected, executed |-> r.executed, db_failed |-> r.db_failed ]

\* What one run of agent_news_node did: whether it called run_news_agent and
\* whether that raised.
NewsRun(st, c) ==
    [ node |-> "agent_news", called |-> NewsCallsCollab(st),
      raised |-> NewsCallsCollab(st) /\ run_news_agent(c).raised, sql |-> None,
      rejected |-> FALSE, executed |-> FALSE, db_failed |-> FALSE ]

\* Mutant of Specialist: the leaf's edge leads to the next step directly.
Specialist_direct(node, new_s, run) ==
    /\ s' = new_s
    /\ last_run' = run
    /\ pc' = decide_next(new_s)
    /\ route' = Append(route, node)
    /\ errors' = IF Truthy(new_s.error) THEN Append(errors, new_s.error) ELSE errors
    /\ classified' = <<>>
    /\ UNCHANGED <<mode, state, turn, asked, typed, synth_calls, was_new, turn_log>>

\* A specialist node returns new_s after the run of its collaborators that
\* run describes; the edge leads back to the router.
Specialist(node, new_s, run) ==
    /\ s' = new_s
    /\ last_run' = run
    /\ pc' = "router"
    /\ route' = Append(route, node)
    /\ errors' = IF Truthy(new_s.error) THEN Append(errors, new_s.error) ELSE errors
    /\ classified' = <<>>
    /\ UNCHANGED <<mode, state, turn, asked, typed, synth_calls, was_new, turn_log>>

AgentSql ==
    /\ pc = "agent_sql"
    /\ Len(route) < RecursionLimit
    /\ \E c \in SqlCollab : Specialist("agent_sql", agent_sql_node(s, c), <<SqlRun(c)>>)

AgentNews ==
    /\ pc = "agent_news"
    /\ Len(route) < RecursionLimit
    /\ \E c \in NewsCollab :
          Specialist("agent_news", agent_news_node(s, c), <<NewsRun(s, c)>>)

AgentFallback ==
    /\ pc = "agent_fallback"
    /\ Len(route) < RecursionLimit
    /\ Specialist("agent_fallback", agent_fallback_node(s), <<>>)

\* synth_node, then the edge to END: the run returns the state to the caller.
\* A completion that raises is not caught and ends the run.
Synth ==
    /\ pc = "synth"
    /\ Len(route) < RecursionLimit
    /\ \E llm \in SynthLlmOutcomes :
          IF SynthCallsLlm(s) /\ llm.raised
          THEN /\ pc' = "SynthError"
               /\ UNCHANGED <<s, state, turn_log>>
          ELSE /\ s' = synth_node(s, llm)
               /\ pc' = "END"
               /\ state' = <<s'>>
               /\ turn_log' = Append(turn_log, [query |-> asked, answer |-> s'.answer])
    /\ route' = Append(route, "synth")
    /\ synth_calls' = IF SynthCallsLlm(s) THEN Append(synth_calls, SynthArgs(s))
                      ELSE synth_calls
    /\ classified' = <<>>
    /\ last_run' = <<>>
    /\ UNCHANGED <<mode, turn, asked, typed, errors, was_new>>

\* The framework ends a run that reaches its limit of node executions.
GraphRecursion ==
    /\ pc \in Nodes
    /\ Len(route) >= RecursionLimit
    /\ pc' = "GraphRecursionError"
    /\ UNCHANGED <<s, mode, state, turn, asked, typed, route, errors, synth_calls, was_new,
                 classified, last_run, turn_log>>

Next ==
    \/ RunQueryOnce
    \/ ChatLoop
    \/ HandleTurn
    \/ Router
    \/ AgentSql
    \/ AgentNews
    \/ AgentFallback
    \/ Synth
    \/ GraphRecursion

Spec == Init /\ [][Next]_vars

\* ------------------------------------------------ the decision function

\* The states decide_next is applied to: every combination of the fields it
\* reads, the other fields blank.
DecideErrors ==
    { None, <<>>,
      <<"SQL agent error: ", "connection refused">>,
      <<"News agent error: Could not identify a ticker.">> }

DecideInputs ==
    { [BlankState(QueryA) EXCEPT !.error = e, !.need_sql = a, !.need_news = b,
                                 !.sql_done = c, !.news_done = d] :
        e \in DecideErrors, a \in BOOLEAN, b \in BOOLEAN, c \in BOOLEAN, d \in BOOLEAN }

InitDecide ==
    /\ s \in DecideInputs
    /\ pc = "router"
    /\ mode = "once"
    /\ state = <<>>
    /\ turn = 1
    /\ asked = QueryA
    /\ typed = QueryA
    /\ route = <<"router">>
    /\ errors = <<>>
    /\ synth_calls = <<>>
    /\ was_new = TRUE
    /\ classified = <<>>
    /\ last_run = <<>>
    /\ turn_log = <<>>

\* The conditional edge alone, applied to s.
Decide ==
    /\ pc = "router"
    /\ pc' = decide_next(s)
    /\ UNCHANGED <<s, mode, state, turn, asked, typed, route, errors, synth_calls, was_new,
                   classified, last_run, turn_log>>

NextDecide == Decide

SpecDecide == InitDecide /\ [][NextDecide]_vars

\* run_query_once(q) up to the entry of the graph, for every query of the
\* classification cases: the router is about to run on q as a new question.
InitClassify ==
    /\ \E q \in AllQueries : s = BlankState(q) /\ asked = q /\ typed = q
    /\ pc = "router"
    /\ mode = "once"
    /\ state = <<>>
    /\ turn = 1
    /\ route = <<>>
    /\ errors = <<>>
    /\ synth_calls = <<>>
    /\ was_new = TRUE
    /\ classified = <<>>
    /\ last_run = <<>>
    /\ turn_log = <<>>

\* The first router pass of the turn, with its routing decision.
NextClassify == Router

SpecClassify == InitClassify /\ [][NextClassify]_vars

\* run_query_once(q) up to the entry of the graph, for the queries of the
\* date cases.
InitDates ==
    /\ \E q \in DateQueries : s = BlankState(q) /\ asked = q /\ typed = q
    /\ pc = "router"
    /\ mode = "once"
    /\ state = <<>>
    /\ turn = 1
    /\ route = <<>>
    /\ errors = <<>>
    /\ synth_calls = <<>>
    /\ was_new = TRUE
    /\ classified = <<>>
    /\ last_run = <<>>
    /\ turn_log = <<>>

\* The steps of the graph, from the first router pass to END.
NextDates ==
    \/ Router
    \/ AgentSql
    \/ AgentNews
    \/ AgentFallback
    \/ Synth
    \/ GraphRecursion

SpecDates == InitDates /\ [][NextDates]_vars

\* ---------------------------------------------------------------- claims

Last(seq) == seq[Len(seq)]
Count(seq, x) == Cardinality({ i \in 1..Len(seq) : seq[i] = x })
Ran(node) == \E i \in 1..Len(route) : route[i] = node

\* The number of specialist dispatches of the current turn.
Dispatches == Cardinality({ i \in 1..Len(route) : route[i] \in Specialists })

\* C1: once a specialist has returned a state with error set, no specialist
\* is dispatched again in that turn: the routing decision that follows is
\* synth.
C1_ErrorShortCircuit ==
    errors # <<>> => pc \notin Specialists

\* C2: no turn ends abnormally because the router/specialist loop keeps
\* running: the run is never stopped by the framework's recursion limit.
C2_TurnReachesSynth ==
    pc # "GraphRecursionError"

\* C3: a turn dispatches at most 2 specialists.
C3_AtMostTwoDispatches ==
    Dispatches <= 2

\* C4: each of the SQL, NEWS and FALLBACK nodes is executed at most once in
\* a turn (so that no done flag is set a second time).
C4_AtMostOncePerSpecialist ==
    \A node \in Specialists : Count(route, node) <= 1

\* C5: the routing decision that follows the fallback specialist is synth.
C5_FallbackTerminal ==
    (Len(route) >= 2 /\ route[Len(route) - 1] = "agent_fallback" /\ Last(route) = "router"
        /\ pc \in Nodes)
    => pc = "synth"

\* C6: in a turn whose query differs from the last_query of its input, the
\* first router pass leaves the done flags false and the results and error
\* empty, need_sql and need_news come from that pass's classification alone,
\* and from then on a result is present only if a specialist of this turn
\* produced it.
C6_NewQuestionIsolation ==
    (was_new /\ route # <<>>) =>
        /\ route = <<"router">> =>
              /\ ~s.sql_done /\ ~s.news_done
              /\ s.sql_result = None /\ s.news_result = None /\ s.error = None
              /\ classified # <<>>
              /\ s.need_sql = (SqlHeuristicOf[s.query]
                                 \/ (~classified[1].raised /\ classified[1].need_sql))
              /\ s.need_news = (NewsHeuristicOf[s.query]
                                  \/ (~classified[1].raised /\ classified[1].need_news))
        /\ s.sql_result # None => (Ran("agent_sql") \/ Ran("agent_fallback"))
        /\ s.news_result # None => Ran("agent_news")

\* A second turn, started with a different query from memory that holds an
\* SQL result, has made its first routing decision.
C6_Witness ==
    /\ turn = 2 /\ was_new /\ route = <<"router">>
    /\ state # <<>> /\ state[1].sql_done /\ state[1].sql_result # None
    /\ state[1].news_result # None

\* The chat history that the completed turns of log give.
ChatOf(log) ==
    [ i \in 1..(2 * Len(log)) |->
        IF i % 2 = 1 THEN HumanMessage(log[(i + 1) \div 2].query)
        ELSE AIMessage(log[i \div 2].answer) ]

IsPrefix(a, b) == Len(a) <= Len(b) /\ SubSeq(b, 1, Len(a)) = a

C7_HistoryOfTurns ==
    /\ Len(s.chat_history) = 2 * Len(turn_log)
    /\ s.chat_history = ChatOf(turn_log)
    /\ state # <<>> => state[1].chat_history = ChatOf(turn_log)

C7_AppendOnlyStep ==
    /\ IsPrefix(s.chat_history, s'.chat_history)
    /\ s'.chat_history # s.chat_history =>
          /\ pc = "synth"
          /\ Len(s'.chat_history) = Len(s.chat_history) + 2
          /\ Len(turn_log') = Len(turn_log) + 1

\* C7: after K completed turns chat_history is the K pairs (user: the turn's
\* query, assistant: the turn's answer) in turn order; every step keeps the
\* history it found as a prefix, and only synthesis extends it, by one pair,
\* once per turn.
C7_HistoryAppendOnly ==
    []C7_HistoryOfTurns /\ [][C7_AppendOnlyStep]_vars

\* Two turns have completed.
C7_Witness ==
    pc = "END" /\ Len(turn_log) = 2 /\ Len(s.chat_history) = 4

\* C8 as stated: in every reachable state sql_done implies that sql_result
\* or error is populated.
C8_DoneImpliesResult ==
    s.sql_done => (Truthy(s.sql_result) \/ Truthy(s.error))

\* C8 as amended: the implication holds in the states of a new-question turn
\* from its first router pass until synthesis runs.
C8_DoneImpliesResultBeforeSynth ==
    (was_new /\ route # <<>> /\ ~Ran("synth")) => C8_DoneImpliesResult

\* A specialist of a new-question turn has set sql_done and synthesis has
\* not run yet.
C8_Witness ==
    was_new /\ Ran("agent_sql") /\ ~Ran("synth") /\ s.sql_done

\* C9: a turn in which a specialist recorded an error answers with the
\* apology that embeds the error, without a synthesis completion.
C9_ErrorGivesApology ==
    (pc = "END" /\ errors # <<>>) =>
        /\ s.answer = <<"Sorry - ">> \o errors[1]
        /\ synth_calls = <<>>

\* The precedence C10 states, rule by rule.
Precedence(st) ==
    IF Truthy(st.error) THEN "synth"
    ELSE IF st.need_sql /\ ~st.sql_done THEN "agent_sql"
    ELSE IF st.need_news /\ ~st.news_done THEN "agent_news"
    ELSE IF ~st.need_sql /\ ~st.need_news THEN "agent_fallback"
    ELSE "synth"

\* C10: the edge decide_next takes from a state is the one the precedence
\* error, SQL, NEWS, FALLBACK, SYNTH gives, for every combination of the
\* five fields it reads.
C10_DecidePrecedence ==
    pc # "router" => pc = Precedence(s)

\* The decision was taken on a state where the error rule overrides a
\* pending SQL dispatch.
C10_Witness ==
    pc = "synth" /\ Truthy(s.error) /\ s.need_sql /\ ~s.sql_done

\* The specialists dispatched in the current turn, in order.
IsSpecialist(node) == node \in Specialists
SpecialistRoute == SelectSeq(route, IsSpecialist)

\* C11: in a turn in which need_sql and need_news both hold the specialists
\* run in the order SQL, NEWS, each once: the dispatches so far are a prefix
\* of SQL, NEWS, and all of it when the turn ends.
C11_SqlThenNews ==
    (route # <<>> /\ s.need_sql /\ s.need_news) =>
        /\ IsPrefix(SpecialistRoute, <<"agent_sql", "agent_news">>)
        /\ pc = "END" => SpecialistRoute = <<"agent_sql", "agent_news">>

\* The words of a text: its maximal runs of letters, digits and underscores.
WordRuns(t) ==
    { SubSeq(t, i, j) : <<i, j>> \in
        { p \in (1..Len(t)) \X (1..Len(t)) :
            /\ p[1] <= p[2]
            /\ \A k \in p[1]..p[2] : IsWordChar(t[k])
            /\ (p[1] = 1 \/ ~IsWordChar(t[p[1] - 1]))
            /\ (p[2] = Len(t) \/ ~IsWordChar(t[p[2] + 1])) } }

PriceWords ==
    { <<"p","r","i","c","e">>,
      <<"o","p","e","n">>,
      <<"c","l","o","s","e">>,
      <<"v","o","l","u","m","e">>,
      <<"h","i","g","h">>,
      <<"l","o","w">> }
NewsWords ==
    { <<"n","e","w","s">>,
      <<"h","e","a","d","l","i","n","e">>,
      <<"a","r","t","i","c","l","e">>,
      <<"u","p","d","a","t","e">> }

\* Per query: whether one of the keywords is a word of it, and whether one of
\* the keywords occurs anywhere in it, in any letter case.
HasPriceWord == [q \in AllQueries |-> WordRuns(lower(q)) \cap PriceWords # {}]
HasNewsWord == [q \in AllQueries |-> WordRuns(lower(q)) \cap NewsWords # {}]
HasPriceText == [q \in AllQueries |-> \E w \in PriceWords : Contains(lower(q), w)]
HasNewsText == [q \in AllQueries |-> \E w \in NewsWords : Contains(lower(q), w)]

\* The router has just made the first pass of a turn on a new question.
FirstPassDone == route = <<"router">> /\ was_new /\ classified # <<>>

C14_LlmFailureHeuristicsOnly ==
    (FirstPassDone /\ classified[1].raised) =>
        /\ pc \in Nodes
        /\ s.need_sql = SqlHeuristicOf[asked]
        /\ s.need_news = NewsHeuristicOf[asked]
        /\ s.error = None

\* The collaborator failed on a query with a news keyword: the turn goes on
\* to NEWS with need_sql false.
C14_Witness ==
    /\ FirstPassDone
    /\ classified[1].raised
    /\ asked = KwNews
    /\ pc = "agent_news"
    /\ s.need_news /\ ~s.need_sql

\* C15: the steps of a turn run one at a time. Every specialist in the route
\* was started by the router pass just before it, so two specialists never
\* follow each other without a router pass between them, a routing decision
\* names one next step, and nothing runs beside the step that pc names.
C15_OneStepAtATime ==
    /\ \A i \in 1..Len(route) :
          route[i] \in Specialists => (i > 1 /\ route[i - 1] = "router")
    /\ pc \in Specialists \cup {"synth"} => (route # <<>> /\ Last(route) = "router")
    /\ pc = "router" /\ route # <<>> => Last(route) \in Specialists

\* SQL and NEWS both ran in one turn, with a router pass between them.
C15_Witness ==
    /\ route = <<"router", "agent_sql", "router", "agent_news", "router">>
    /\ pc = "synth"

\* C16: what a specialist wrote in this turn is still there at every later
\* routing decision of the turn: after a router pass that follows a
\* specialist, the error a specialist recorded is still set.
C16_TurnResultsSurviveRouter ==
    (errors # <<>> /\ Last(route) = "router") => Truthy(s.error)

\* The step that just ran was the SQL node, and what its adapter did.
SqlJustRan == last_run # <<>> /\ last_run[1].node = "agent_sql"
SqlRejected == SqlJustRan /\ last_run[1].rejected

\* C17, as stated: when the price-data adapter rejects the generated query,
\* state.error is set (so that the next routing decision is synth and the
\* answer is the generic apology).
C17_RejectionSetsError ==
    SqlRejected => Truthy(s.error)

\* C17, amended: when the price-data adapter rejects the generated query,
\* error stays unset, sql_result is the adapter's apology string and sql_done
\* is set; the routing decision that follows is NEWS when need_news holds
\* with news_done false, and synth otherwise.
C17_RejectionIsAnAnswer ==
    /\ [](SqlRejected =>
            /\ s.error = None
            /\ s.sql_result = SqlApology
            /\ s.sql_done)
    /\ [][(SqlRejected /\ pc' \in Nodes) =>
            /\ pc' \in {"agent_news", "synth"}
            /\ pc' = "agent_news" <=> (s'.need_news /\ ~s'.news_done)]_vars

\* The adapter has rejected a query that names another table.
C17_Witness ==
    /\ SqlRejected
    /\ last_run[1].sql = SqlOtherTable
    /\ s.sql_result = SqlApology
    /\ pc = "router"

\* Per generated query: it names stock_data and none of news, headline, url.
PricesOnly ==
    [sql \in SqlTexts |->
        /\ Contains(lower(sql), StockDataWord)
        /\ \A word \in BannedWords : ~Contains(lower(sql), word)]

\* C18: the price-data adapter runs a generated query against the database
\* only if it names stock_data and none of news, headline, url; when the
\* query is rejected or its execution fails, the adapter does not raise and
\* its output, which the node stores as sql_result, is the apology string.
C18_ValidateBeforeExecute ==
    SqlJustRan =>
        /\ last_run[1].executed => PricesOnly[last_run[1].sql]
        /\ (last_run[1].sql # None /\ ~PricesOnly[last_run[1].sql]) => last_run[1].rejected
        /\ (last_run[1].rejected \/ last_run[1].db_failed) =>
              /\ ~last_run[1].raised
              /\ s.error = None
              /\ s.sql_result = SqlApology
              /\ s.sql_done

\* A query that names stock_data and headline was rejected without being
\* run.
C18_Witness ==
    /\ SqlJustRan
    /\ last_run[1].sql = SqlNews
    /\ last_run[1].rejected
    /\ ~last_run[1].executed
    /\ s.sql_result = SqlApology

NoTickerError == <<"News agent error: Could not identify a ticker.">>

\* C19: when the NEWS node runs with no ticker resolved, it does not call
\* the news collaborator, it returns error 'News agent error: Could not
\* identify a ticker.' with news_result and news_done as they were, and the
\* run goes back to the router as after any failure of a specialist.
C19_NoTickerNoCall ==
    [][(pc = "agent_news" /\ ~Truthy(s.last_ticker) /\ pc' # "GraphRecursionError") =>
          /\ last_run' # <<>>
          /\ ~last_run'[1].called
          /\ s'.error = NoTickerError
          /\ s'.news_result = s.news_result
          /\ s'.news_done = s.news_done
          /\ errors' = Append(errors, NoTickerError)
          /\ pc' = "router"]_vars

\* The NEWS node has just run on a query with no ticker.
C19_Witness ==
    /\ route # <<>> /\ Last(route) = "agent_news"
    /\ ~Truthy(s.last_ticker)
    /\ last_run # <<>> /\ ~last_run[1].called
    /\ s.error = NoTickerError
    /\ ~s.news_done

\* The fields no specialist may change.
SpecialistFrame(st) ==
    <<st.query, st.chat_history, st.last_ticker, st.last_date, st.last_query,
      st.need_sql, st.need_news>>

\* C20: a step of the SQL, NEWS or FALLBACK node leaves query, chat_history,
\* last_ticker, last_date, last_query, need_sql and need_news as they were,
\* whether it succeeds or fails, and chat_history changes in no step but
\* synthesis.
C20_SpecialistFrame ==
    [][/\ pc \in Specialists => SpecialistFrame(s') = SpecialistFrame(s)
       /\ s'.chat_history # s.chat_history => pc = "synth"]_vars

\* The SQL node has stored a result in a turn that started with a chat
\* history.
C20_Witness ==
    /\ s.chat_history # <<>>
    /\ SqlJustRan
    /\ s.sql_done
    /\ s.error = None

\* The memory a turn starts from: the state the previous turn committed, or
\* nothing.
MemoryTicker == IF state = <<>> THEN None ELSE state[1].last_ticker
MemoryDate == IF state = <<>> THEN None ELSE state[1].last_date

\* C21: when a turn commits its state, last_ticker is the ticker resolved
\* from the turn's query, or, when the query resolves to none, the value it
\* had before the turn; last_date is the date found in the turn's query, or,
\* when there is none, the value it had before the turn.
C21_StickyMemory ==
    [][state' # state =>
          /\ state'[1].last_ticker =
                IF Truthy(TickerOf[asked]) THEN TickerOf[asked] ELSE MemoryTicker
          /\ state'[1].last_date =
                IF DateOf[asked] # None THEN DateOf[asked] ELSE MemoryDate]_vars

\* A second turn on a query with no ticker and no date has ended with the
\* ticker and the date of the first turn's query still in memory.
C21_Witness ==
    /\ pc = "END"
    /\ turn = 2
    /\ asked = QueryE
    /\ ~Truthy(TickerOf[QueryE]) /\ DateOf[QueryE] = None
    /\ state # <<>>
    /\ state[1].last_ticker = TickerOf[QueryA] /\ Truthy(TickerOf[QueryA])
    /\ state[1].last_date = DateOf[QueryA] /\ DateOf[QueryA] # None

\* A date written as M/D/YY or M/D/YYYY from position i of t, between
\* characters that are not digits: <<month length, day length, year length>>.
SlashDateAt(t, i) ==
    { m \in {1, 2} \X {1, 2} \X {2, 4} :
        LET d == i + m[1] + 1
            y == d + m[2] + 1
        IN  /\ y + m[3] - 1 <= Len(t)
            /\ (i = 1 \/ ~IsDigit(t[i - 1]))
            /\ \A k \in i..(i + m[1] - 1) : IsDigit(t[k])
            /\ t[i + m[1]] = "/"
            /\ \A k \in d..(d + m[2] - 1) : IsDigit(t[k])
            /\ t[d + m[2]] = "/"
            /\ \A k \in y..(y + m[3] - 1) : IsDigit(t[k])
            /\ (y + m[3] > Len(t) \/ ~IsDigit(t[y + m[3]])) }

\* The ISO form of the date at position i: month and day zero-padded, a
\* 2-digit year prefixed with 20.
SlashDateIso(t, i, m) ==
    LET d == i + m[1] + 1
        y == d + m[2] + 1
        yr == SubSeq(t, y, y + m[3] - 1)
    IN  (IF m[3] = 2 THEN <<"2", "0">> ELSE <<>>) \o yr \o <<"-">>
        \o Fmt02d(IntOf(SubSeq(t, i, i + m[1] - 1))) \o <<"-">>
        \o Fmt02d(IntOf(SubSeq(t, d, d + m[2] - 1)))

\* The date written in a query, in ISO form: an ISO date verbatim, else the
\* first M/D/YY or M/D/YYYY date normalized, else None.
WrittenDate(q) ==
    LET at == { i \in 1..Len(q) : SlashDateAt(q, i) # {} }
    IN  IF SearchIsoDate(q) # None THEN SearchIsoDate(q)
        ELSE IF at = {} THEN None
        ELSE SlashDateIso(q, Min(at), CHOOSE m \in SlashDateAt(q, Min(at)) : TRUE)

WrittenDateOf == [q \in AllQueries |-> WrittenDate(q)]

\* C22: when a turn has ended, last_date is the ISO form of the date written
\* in its query, for a query with an ISO, M/D/YYYY or M/D/YY date.
C22_DateResolved ==
    (pc = "END" /\ WrittenDateOf[asked] # None) => s.last_date = WrittenDateOf[asked]

\* The symbols of the alias table whose key is a word of the query.
AliasSymbols(q) == { p[2] : p \in { r \in TICKER_MAP : r[1] \in WordRuns(lower(q)) } }

\* The tickers the stated order allows for a query: the first sigil-prefixed
\* token of 1 to 5 letters in capitals; else a symbol of the alias table
\* whose key is in the query; else the first bare upper-case token of 1 to 5
\* letters; else none.
StatedTickers(q) ==
    LET dollarAt == { i \in 1..Len(q) : DollarLens(q, i) # {} }
        upperAt  == { i \in 1..Len(q) : UpperLens(q, i) # {} }
    IN  IF dollarAt # {}
        THEN { upper(SubSeq(q, Min(dollarAt) + 1,
                            Min(dollarAt) + Max(DollarLens(q, Min(dollarAt))))) }
        ELSE IF AliasSymbols(q) # {} THEN AliasSymbols(q)
        ELSE IF upperAt # {}
        THEN { SubSeq(q, Min(upperAt), Min(upperAt) + Max(UpperLens(q, Min(upperAt))) - 1) }
        ELSE { None, <<>> }

StatedTickersOf == [q \in AllQueries |-> StatedTickers(q)]

\* C23: after the first router pass of a turn that starts with no ticker in
\* memory, last_ticker is the ticker the stated order gives for the query.
C23_TickerOrder ==
    (FirstPassDone /\ state = <<>>) => s.last_ticker \in StatedTickersOf[asked]

\* C24: in the interactive loop the query a turn processes is the text the
\* user typed for that turn.
C24_ChatProcessesTypedQuery ==
    (mode = "chat" /\ turn >= 1 /\ pc # "exit") => (asked = typed /\ s.query = typed)

\* C25: in a turn whose query equals the last_query of the memory it starts
\* from, nothing is reset and neither the SQL nor the NEWS node is
\* dispatched: the done flags stay true and sql_result and news_result,
\* also those handed to synthesis, are the ones the previous turn committed.
C25_RepeatedQuestionReusesResults ==
    (~was_new /\ route # <<>>) =>
        /\ \A i \in 1..Len(route) : route[i] \notin {"agent_sql", "agent_news"}
        /\ pc \notin {"agent_sql", "agent_news"}
        /\ s.sql_done /\ s.news_done
        /\ state # <<>>
        /\ s.sql_result = state[1].sql_result
        /\ s.news_result = state[1].news_result
        /\ \A i \in 1..Len(synth_calls) :
              /\ synth_calls[i].sql = Or(state[1].sql_result, <<"No stock info found.">>)
              /\ synth_calls[i].news = Or(state[1].news_result, <<>>)

\* A second turn on the same query went from the router straight to
\* synthesis, which worked from the SQL result of the first turn.
C25_Witness ==
    /\ ~was_new
    /\ turn = 2
    /\ route = <<"router", "synth">>
    /\ pc = "END"
    /\ Len(synth_calls) = 1
    /\ s.sql_result # None
    /\ synth_calls[1].sql = s.sql_result

\* C26: need_sql and need_news only grow within a turn: a step that takes
\* either flag from true to false is the first router pass of a turn on a
\* new question, where the reset applies.
C26_FlagsOnlyGrow ==
    [][((s.need_sql /\ ~s'.need_sql) \/ (s.need_news /\ ~s'.need_news))
          => (pc = "router" /\ route = <<>> /\ s.last_query # s.query)]_vars

\* After SQL ran, a router pass whose classification says no to need_sql
\* (no price keyword, collaborator answers no) has left need_sql true.
C26_Witness ==
    /\ Count(route, "router") >= 2
    /\ Last(route) = "router"
    /\ classified # <<>>
    /\ ~need_sql_llm(classified[1])
    /\ ~SqlHeuristicOf[asked]
    /\ s.need_sql
=============================================================================
